---- MODULE Spec2Model ----
(***************************************************************************)
(* A model of OSLToyRenderer (src/osltoy/osltoyrenderer.cpp): the camera   *)
(* configuration, the named-transform catalog, the transform resolution    *)
(* services get_matrix / get_inverse_matrix, the attribute services        *)
(* get_attribute / get_array_attribute / get_userdata, and the shader      *)
(* globals template handed to shade_image by render_image.                 *)
(*                                                                         *)
(* Floats are modelled as exact rationals <<n, d>> (d > 0, lowest terms):  *)
(* rounding is abstracted, the arithmetic itself is carried out.           *)
(***************************************************************************)
EXTENDS Integers, Sequences, FiniteSets, TLC

\* ------------------------------------------------------------------------
\* Rational arithmetic (the float type of the source).

Abs(x) == IF x < 0 THEN -x ELSE x

RECURSIVE GCD(_, _)
GCD(a, b) == IF b = 0 THEN a ELSE GCD(b, a % b)

Rat(n, d) ==
    LET g == GCD(Abs(n), Abs(d))
        s == IF d < 0 THEN -1 ELSE 1
    IN  <<(s * n) \div g, (s * d) \div g>>

Float(i) == <<i, 1>>

RAdd(a, b) == Rat(a[1] * b[2] + b[1] * a[2], a[2] * b[2])
RSub(a, b) == Rat(a[1] * b[2] - b[1] * a[2], a[2] * b[2])
RMul(a, b) == Rat(a[1] * b[1], a[2] * b[2])
RDiv(a, b) == Rat(a[1] * b[2], a[2] * b[1])
RNeg(a)    == <<-a[1], a[2]>>
RLe(a, b)  == a[1] * b[2] <= b[1] * a[2]

F0 == Float(0)
F1 == Float(1)

\* ------------------------------------------------------------------------
\* Matrix44: four rows of four floats, row-major like the 16-argument
\* Imath constructor; operator* is the row-by-column product.

Matrix44(a, b, c, d, e, f, g, h, i, j, k, l, m, n, o, p) ==
    << <<a, b, c, d>>, <<e, f, g, h>>, <<i, j, k, l>>, <<m, n, o, p>> >>

makeIdentity ==
    Matrix44(F1, F0, F0, F0,  F0, F1, F0, F0,  F0, F0, F1, F0,  F0, F0, F0, F1)

MatMul(A, B) ==
    [r \in 1..4 |-> [c \in 1..4 |->
        RAdd(RAdd(RMul(A[r][1], B[1][c]), RMul(A[r][2], B[2][c])),
             RAdd(RMul(A[r][3], B[3][c]), RMul(A[r][4], B[4][c])))]]

\* The three indices of 1..4 other than i, in order.
Others(i) == IF i = 1 THEN <<2, 3, 4>> ELSE IF i = 2 THEN <<1, 3, 4>>
             ELSE IF i = 3 THEN <<1, 2, 4>> ELSE <<1, 2, 3>>

Det3(A, rs, cs) ==
    LET e(r, c) == A[rs[r]][cs[c]]
    IN  RAdd(RSub(RMul(e(1, 1), RSub(RMul(e(2, 2), e(3, 3)), RMul(e(2, 3), e(3, 2)))),
                  RMul(e(1, 2), RSub(RMul(e(2, 1), e(3, 3)), RMul(e(2, 3), e(3, 1))))),
             RMul(e(1, 3), RSub(RMul(e(2, 1), e(3, 2)), RMul(e(2, 2), e(3, 1)))))

Cofactor(A, r, c) ==
    LET m == Det3(A, Others(r), Others(c))
    IN  IF (r + c) % 2 = 0 THEN m ELSE RNeg(m)

Det4(A) ==
    RAdd(RAdd(RMul(A[1][1], Cofactor(A, 1, 1)), RMul(A[1][2], Cofactor(A, 1, 2))),
         RAdd(RMul(A[1][3], Cofactor(A, 1, 3)), RMul(A[1][4], Cofactor(A, 1, 4))))

\* Matrix44::invert(): the numeric inverse; a singular matrix becomes the
\* identity (Imath's non-throwing inverse).
invert(A) ==
    LET det == Det4(A)
    IN  IF det = F0 THEN makeIdentity
        ELSE [r \in 1..4 |-> [c \in 1..4 |-> RDiv(Cofactor(A, c, r), det)]]

\* ------------------------------------------------------------------------
\* Values the operations are exercised with.

NumAddrs == 4
Addrs == 1 .. NumAddrs
MaxMouse == 2
DefaultRes == 256
DefaultFov == 90
DefaultYon == 1000

Identity44 == makeIdentity

Translate123 ==
    Matrix44(F1, F0, F0, F0,  F0, F1, F0, F0,  F0, F0, F1, F0,
             Float(1), Float(2), Float(3), F1)

ScaleShear ==
    Matrix44(Float(2), F0, F0, F0,  F1, Float(4), F0, F0,  F0, F0, Rat(1, 2), F0,
             Float(-1), F0, Float(5), F1)

\* Matrices handed to name_transform (all invertible).
XformValues == {Identity44, Translate123, ScaleShear}

\* Heap content of a released Matrix44, and what a read of released or
\* never-written storage may yield besides a complete matrix.
Freed == <<>>
Indeterminate == [r \in 1..4 |-> [c \in 1..4 |-> <<0, 0>>]]

BuiltinSpaces == {"camera", "screen", "NDC", "raster"}
RegisterNames == {"myspace", "shader", "camera"}
QueryNames    == BuiltinSpaces \cup {"myspace", "shader", "nospace"}

\* fov in degrees; the second one stands for 2*atan(1/2) = 53.13... degrees.
Fov53 == Rat(5313, 100)

\* camera_params argument tuples.
DefaultCamera ==
    [world_to_camera |-> Identity44, projection |-> "perspective",
     hfov |-> Float(DefaultFov), hither |-> Rat(1, 10), yon |-> Float(DefaultYon),
     xres |-> DefaultRes, yres |-> DefaultRes]

CameraConfigs ==
    { DefaultCamera,
      [world_to_camera |-> Translate123, projection |-> "orthographic",
       hfov |-> Fov53, hither |-> F1, yon |-> Float(3), xres |-> 2, yres |-> 1],
      [world_to_camera |-> ScaleShear, projection |-> "perspective",
       hfov |-> Fov53, hither |-> Float(2), yon |-> Float(4), xres |-> 1, yres |-> 2],
      [world_to_camera |-> Translate123, projection |-> "spherical",
       hfov |-> Float(DefaultFov), hither |-> F1, yon |-> Float(3), xres |-> 2, yres |-> 2] }

\* ------------------------------------------------------------------------
\* State of an OSLToyRenderer.

VARIABLES
    m_world_to_camera, m_projection, m_fov, m_pixelaspect, m_hither, m_yon,
    m_shutter, m_screen_window, m_xres, m_yres,   \* camera configuration
    m_named_xforms,            \* name -> address of the shared Matrix44
    heap,                      \* address -> Matrix44, or Freed
    m_mouse_x, m_mouse_y,      \* tracked pointer, -1 when unset
    m_shaderglobals_template,  \* prototype ShaderGlobals
    m_framebuffer,             \* <<>> until render_image allocates it
    ret,                       \* the last call: its arguments and what it returned
    configured,                \* history: arguments of the last camera_params
    registered,                \* history: name -> matrix last given to name_transform
    writer, reader             \* threads inside name_transform / get_matrix

camera_vars == <<m_world_to_camera, m_projection, m_fov, m_pixelaspect, m_hither,
                 m_yon, m_shutter, m_screen_window, m_xres, m_yres, configured>>
catalog_vars == <<m_named_xforms, heap, registered>>
mouse_vars == <<m_mouse_x, m_mouse_y>>
thread_vars == <<writer, reader>>
vars == <<camera_vars, catalog_vars, mouse_vars, m_shaderglobals_template,
          m_framebuffer, ret, thread_vars>>

Vec3(a, b, c) == <<a, b, c>>

\* The constructor's "default shaderglobals": memset 0, then the fields set.
ShaderGlobalsTemplate(xres, yres) ==
    [shader2common |-> "&Mshad", object2common |-> "&Mobj",
     raytype |-> 0, surfacearea |-> F1,
     u |-> F0, v |-> F0,
     dudx |-> RDiv(F1, Float(xres)), dudy |-> F0,
     dvdx |-> F0, dvdy |-> RDiv(F1, Float(yres)),
     dPdx |-> Vec3(F1, F0, F0), dPdy |-> Vec3(F0, F1, F0),
     dPdu |-> Vec3(Float(xres), F0, F0), dPdv |-> Vec3(F0, Float(yres), F0),
     dPdz |-> Vec3(F0, F0, F0),
     N |-> Vec3(F0, F0, F1), Ng |-> Vec3(F0, F0, F1)]

\* The assignments of camera_params, as the primed camera state.
SetCamera(c) ==
    LET frame_aspect == RMul(RDiv(Float(c.xres), Float(c.yres)), F1)
    IN  /\ m_world_to_camera' = c.world_to_camera
        /\ m_projection' = c.projection
        /\ m_fov' = c.hfov
        /\ m_pixelaspect' = F1
        /\ m_hither' = c.hither
        /\ m_yon' = c.yon
        /\ m_shutter' = <<F0, F1>>
        /\ m_screen_window' = <<RNeg(frame_aspect), Float(-1), frame_aspect, F1>>
        /\ m_xres' = c.xres
        /\ m_yres' = c.yres
        /\ configured' = c

NoCall == [op |-> "none"]
Idle == [pc |-> "idle"]

\* OSLToyRenderer::OSLToyRenderer(): camera_params with the defaults, then
\* the template from the m_xres, m_yres just set.
Init ==
    /\ m_world_to_camera = DefaultCamera.world_to_camera
    /\ m_projection = DefaultCamera.projection
    /\ m_fov = DefaultCamera.hfov
    /\ m_pixelaspect = F1
    /\ m_hither = DefaultCamera.hither
    /\ m_yon = DefaultCamera.yon
    /\ m_shutter = <<F0, F1>>
    /\ m_screen_window = <<Float(-1), Float(-1), F1, F1>>
    /\ m_xres = DefaultCamera.xres
    /\ m_yres = DefaultCamera.yres
    /\ configured = DefaultCamera
    /\ m_named_xforms = <<>>
    /\ heap = [a \in Addrs |-> Freed]
    /\ registered = <<>>
    /\ m_mouse_x = -1
    /\ m_mouse_y = -1
    /\ m_shaderglobals_template = ShaderGlobalsTemplate(DefaultRes, DefaultRes)
    /\ m_framebuffer = <<>>
    /\ ret = NoCall
    /\ writer = Idle
    /\ reader = Idle

\* No call is in progress or waiting to be read by its caller.
Quiet == writer = Idle /\ reader = Idle /\ ret.op = "none"

\* camera_params(world_to_camera, projection, hfov, hither, yon, xres, yres)
CameraParams ==
    /\ Quiet
    /\ \E c \in CameraConfigs :
        /\ SetCamera(c)
        /\ ret' = [op |-> "camera_params"]
        /\ UNCHANGED <<catalog_vars, mouse_vars, m_shaderglobals_template,
                       m_framebuffer, thread_vars>>

\* ------------------------------------------------------------------------
\* Transform resolution.

\* tanf(0.5f * fov * M_PI / 180.0) for the fov values in use.
TanHalfFov(fov) == IF fov = Float(DefaultFov) THEN F1 ELSE Rat(1, 2)

camera_to_screen_perspective(fov, hither, yon) ==
    LET depthrange == RSub(yon, hither)
        tanhalffov == TanHalfFov(fov)
    IN  Matrix44(RDiv(F1, tanhalffov), F0, F0, F0,
                 F0, RDiv(F1, tanhalffov), F0, F0,
                 F0, F0, RDiv(yon, depthrange), F1,
                 F0, F0, RDiv(RMul(RNeg(yon), hither), depthrange), F0)

camera_to_screen_orthographic(hither, yon) ==
    LET depthrange == RSub(yon, hither)
    IN  Matrix44(F1, F0, F0, F0,
                 F0, F1, F0, F0,
                 F0, F0, RDiv(F1, depthrange), F0,
                 F0, F0, RDiv(RNeg(hither), depthrange), F1)

screen_to_ndc ==
    LET screenleft == Float(-1)
        screenwidth == Float(2)
        screenbottom == Float(-1)
        screenheight == Float(2)
    IN  Matrix44(RDiv(F1, screenwidth), F0, F0, F0,
                 F0, RDiv(F1, screenheight), F0, F0,
                 F0, F0, F1, F0,
                 RDiv(RNeg(screenleft), screenwidth),
                 RDiv(RNeg(screenbottom), screenheight), F0, F1)

ndc_to_raster(xres, yres) ==
    Matrix44(Float(xres), F0, F0, F0,  F0, Float(yres), F0, F0,
             F0, F0, F1, F0,  F0, F0, F0, F1)

Found(val) == [ok |-> TRUE, val |-> val]
NotFound   == [ok |-> FALSE, val |-> Indeterminate]

\* get_matrix(sg, result, from[, time]): the catalog lookup only.
get_matrix(from) ==
    IF from \in DOMAIN m_named_xforms
    THEN Found(heap[m_named_xforms[from]])
    ELSE NotFound

\* The built-in branch of get_inverse_matrix: M as the nested ifs leave it.
builtin_space_matrix(to) ==
    LET M1 == m_world_to_camera
        M2 == IF to \in {"screen", "NDC", "raster"}
              THEN IF m_projection = "perspective"
                   THEN MatMul(M1, camera_to_screen_perspective(m_fov, m_hither, m_yon))
                   ELSE MatMul(M1, camera_to_screen_orthographic(m_hither, m_yon))
              ELSE M1
        M3 == IF to \in {"NDC", "raster"} THEN MatMul(M2, screen_to_ndc) ELSE M2
        M4 == IF to = "raster" THEN MatMul(M3, ndc_to_raster(m_xres, m_yres)) ELSE M3
    IN  M4

\* get_inverse_matrix with the catalog consulted before the built-in names.
get_inverse_matrix_catalog_first(to) ==
    IF to \in DOMAIN m_named_xforms
    THEN Found(invert(heap[m_named_xforms[to]]))
    ELSE IF to \in {"camera", "screen", "NDC", "raster"}
         THEN Found(builtin_space_matrix(to))
         ELSE NotFound

\* get_inverse_matrix(sg, result, to, time)
get_inverse_matrix(to) ==
    IF to \in {"camera", "screen", "NDC", "raster"}
    THEN Found(builtin_space_matrix(to))
    ELSE IF to \in DOMAIN m_named_xforms
         THEN Found(invert(heap[m_named_xforms[to]]))
         ELSE NotFound

XformCall(op, name, r) == [op |-> op, name |-> name, ok |-> r.ok, val |-> r.val]

\* get_matrix(sg, result, from) and get_matrix(sg, result, from, time):
\* the same lookup, time is ignored.
GetMatrix ==
    /\ Quiet
    /\ \E from \in QueryNames, time \in {"none", "given"} :
        /\ ret' = XformCall("get_matrix", from, get_matrix(from))
        /\ UNCHANGED <<camera_vars, catalog_vars, mouse_vars,
                       m_shaderglobals_template, m_framebuffer, thread_vars>>

\* get_matrix(sg, result, xform[, time]): xform points at a Matrix44.
GetMatrixXform ==
    /\ Quiet
    /\ \E xform \in {a \in Addrs : heap[a] # Freed} :
        /\ ret' = XformCall("get_matrix_xform", xform, Found(heap[xform]))
        /\ UNCHANGED <<camera_vars, catalog_vars, mouse_vars,
                       m_shaderglobals_template, m_framebuffer, thread_vars>>

GetInverseMatrix ==
    /\ Quiet
    /\ \E to \in QueryNames :
        /\ ret' = XformCall("get_inverse_matrix", to, get_inverse_matrix(to))
        /\ UNCHANGED <<camera_vars, catalog_vars, mouse_vars,
                       m_shaderglobals_template, m_framebuffer, thread_vars>>

\* new Matrix44(xform): the lowest free address.
NewAddr == CHOOSE a \in Addrs : heap[a] = Freed /\ \A b \in Addrs : heap[b] = Freed => a <= b

Put(f, k, v) == [n \in DOMAIN f \cup {k} |-> IF n = k THEN v ELSE f[n]]

\* The catalog written with insert(): a name already present keeps its matrix.
catalog_insert(name, M, h) ==
    IF name \in DOMAIN m_named_xforms
    THEN [map |-> m_named_xforms, heap |-> [h EXCEPT ![M] = Freed]]
    ELSE [map |-> Put(m_named_xforms, name, M), heap |-> h]

\* m_named_xforms[name] = M: the slot holds M; the matrix the slot held
\* before loses its only owner and is deleted.
catalog_assign(name, M, h) ==
    [map |-> Put(m_named_xforms, name, M),
     heap |-> IF name \in DOMAIN m_named_xforms
              THEN [h EXCEPT ![m_named_xforms[name]] = Freed]
              ELSE h]

\* name_transform(name, xform)
NameTransform ==
    /\ Quiet
    /\ \E name \in RegisterNames, xform \in XformValues :
        /\ \E a \in Addrs : heap[a] = Freed
        /\ LET M == NewAddr
               c == catalog_assign(name, M, [heap EXCEPT ![M] = xform])
           IN  /\ m_named_xforms' = c.map
               /\ heap' = c.heap
        /\ registered' = Put(registered, name, xform)
        /\ ret' = [op |-> "name_transform", name |-> name]
        /\ UNCHANGED <<camera_vars, mouse_vars, m_shaderglobals_template,
                       m_framebuffer, thread_vars>>

\* render_image(): allocate the framebuffer on first use, then shade_image
\* with the template.
RenderImage ==
    /\ Quiet
    /\ m_framebuffer' = IF m_framebuffer = <<>> THEN <<m_xres, m_yres, 3>>
                        ELSE m_framebuffer
    /\ ret' = [op |-> "render_image", sg |-> m_shaderglobals_template]
    /\ UNCHANGED <<camera_vars, catalog_vars, mouse_vars,
                   m_shaderglobals_template, thread_vars>>

\* ------------------------------------------------------------------------
\* Attribute resolution.  The caller's buffer val is a sequence of slots: one
\* block of TypeSize(type) slots, three blocks when derivatives are asked
\* for.  A float slot is a rational, an int slot <<i>>, a string slot <<s>>;
\* Stale is a slot still holding what the caller's memory held before.

Stale == <<>>

TypeDescs == {"float", "int", "string", "float[2]", "float[4]", "int[2]"}

\* Elements of a type: type.size() in units of one element.
TypeSize(type) ==
    IF type \in {"float[2]", "int[2]"} THEN 2 ELSE IF type = "float[4]" THEN 4 ELSE 1

\* The bytes memset(.., 0, ..) leaves, read as an element of the type.
ZeroSlot(type) ==
    IF type \in {"int", "int[2]"} THEN <<0>>
    ELSE IF type = "string" THEN <<"">> ELSE F0

Buffer(type, derivatives) ==
    [k \in 1 .. (IF derivatives THEN 3 ELSE 1) * TypeSize(type) |-> Stale]

\* ((T*)val)[0..] = vs
Store(val, vs) == [k \in DOMAIN val |-> IF k <= Len(vs) THEN vs[k] ELSE val[k]]

\* if (derivs) memset((char*)val + type.size(), 0, 2 * type.size());
ZeroDerivs(derivs, type, val) ==
    IF derivs
    THEN [k \in DOMAIN val |-> IF k > TypeSize(type) THEN ZeroSlot(type) ELSE val[k]]
    ELSE val

Got(val)      == [ok |-> TRUE, val |-> val]
Declined(val) == [ok |-> FALSE, val |-> val]

get_osl_version(derivs, type, val) ==
    IF type = "int" THEN Got(Store(val, << <<"OSL_VERSION">> >>)) ELSE Declined(val)

\* get_camera_resolution that also answers a scalar int with xres.
get_camera_resolution_any_int(derivs, type, val) ==
    IF type \in {"int[2]", "int"}
    THEN Got(Store(val, << <<m_xres>>, <<m_yres>> >>))
    ELSE Declined(val)

get_camera_resolution(derivs, type, val) ==
    IF type = "int[2]"
    THEN Got(Store(val, << <<m_xres>>, <<m_yres>> >>))
    ELSE Declined(val)

get_camera_projection(derivs, type, val) ==
    IF type = "string" THEN Got(Store(val, << <<m_projection>> >>)) ELSE Declined(val)

get_camera_fov(derivs, type, val) ==
    IF type = "float"
    THEN Got(ZeroDerivs(derivs, type, Store(val, <<m_fov>>)))
    ELSE Declined(val)

get_camera_pixelaspect(derivs, type, val) ==
    IF type = "float"
    THEN Got(ZeroDerivs(derivs, type, Store(val, <<m_pixelaspect>>)))
    ELSE Declined(val)

get_camera_clip(derivs, type, val) ==
    IF type = "float[2]"
    THEN Got(ZeroDerivs(derivs, type, Store(val, <<m_hither, m_yon>>)))
    ELSE Declined(val)

get_camera_clip_near(derivs, type, val) ==
    IF type = "float"
    THEN Got(ZeroDerivs(derivs, type, Store(val, <<m_hither>>)))
    ELSE Declined(val)

get_camera_clip_far(derivs, type, val) ==
    IF type = "float"
    THEN Got(ZeroDerivs(derivs, type, Store(val, <<m_yon>>)))
    ELSE Declined(val)

get_camera_shutter(derivs, type, val) ==
    IF type = "float[2]"
    THEN Got(ZeroDerivs(derivs, type, Store(val, <<m_shutter[1], m_shutter[2]>>)))
    ELSE Declined(val)

get_camera_shutter_open(derivs, type, val) ==
    IF type = "float"
    THEN Got(ZeroDerivs(derivs, type, Store(val, <<m_shutter[1]>>)))
    ELSE Declined(val)

get_camera_shutter_close(derivs, type, val) ==
    IF type = "float"
    THEN Got(ZeroDerivs(derivs, type, Store(val, <<m_shutter[2]>>)))
    ELSE Declined(val)

get_camera_screen_window(derivs, type, val) ==
    IF type = "float[4]"
    THEN Got(ZeroDerivs(derivs, type,
             Store(val, <<m_screen_window[1], m_screen_window[2],
                          m_screen_window[3], m_screen_window[4]>>)))
    ELSE Declined(val)

\* The keys of m_attr_getters, filled in by the constructor.
m_attr_getters ==
    {"osl:version", "camera:resolution", "camera:projection", "camera:pixelaspect",
     "camera:screen_window", "camera:fov", "camera:clip", "camera:clip_near",
     "camera:clip_far", "camera:shutter", "camera:shutter_open",
     "camera:shutter_close"}

\* (this->*(m_attr_getters[name]))(sg, derivatives, object, type, name, val)
CallGetter(name, derivs, type, val) ==
    IF name = "osl:version" THEN get_osl_version(derivs, type, val)
    ELSE IF name = "camera:resolution" THEN get_camera_resolution(derivs, type, val)
    ELSE IF name = "camera:projection" THEN get_camera_projection(derivs, type, val)
    ELSE IF name = "camera:pixelaspect" THEN get_camera_pixelaspect(derivs, type, val)
    ELSE IF name = "camera:screen_window" THEN get_camera_screen_window(derivs, type, val)
    ELSE IF name = "camera:fov" THEN get_camera_fov(derivs, type, val)
    ELSE IF name = "camera:clip" THEN get_camera_clip(derivs, type, val)
    ELSE IF name = "camera:clip_near" THEN get_camera_clip_near(derivs, type, val)
    ELSE IF name = "camera:clip_far" THEN get_camera_clip_far(derivs, type, val)
    ELSE IF name = "camera:shutter" THEN get_camera_shutter(derivs, type, val)
    ELSE IF name = "camera:shutter_open" THEN get_camera_shutter_open(derivs, type, val)
    ELSE get_camera_shutter_close(derivs, type, val)

\* get_userdata with the partials of s read in the other order.
get_userdata_swapped(derivatives, name, type, sg, val) ==
    IF name = "s" /\ type = "float"
    THEN Got(IF derivatives THEN Store(val, <<sg.u, sg.dudy, sg.dudx>>)
             ELSE Store(val, <<sg.u>>))
    ELSE IF name = "t" /\ type = "float"
    THEN Got(IF derivatives THEN Store(val, <<sg.v, sg.dvdx, sg.dvdy>>)
             ELSE Store(val, <<sg.v>>))
    ELSE Declined(val)

\* get_userdata(derivatives, name, type, sg, val)
get_userdata(derivatives, name, type, sg, val) ==
    IF name = "s" /\ type = "float"
    THEN Got(IF derivatives THEN Store(val, <<sg.u, sg.dudx, sg.dudy>>)
             ELSE Store(val, <<sg.u>>))
    ELSE IF name = "t" /\ type = "float"
    THEN Got(IF derivatives THEN Store(val, <<sg.v, sg.dvdx, sg.dvdy>>)
             ELSE Store(val, <<sg.v>>))
    ELSE Declined(val)

\* A return statement of get_array_attribute: what it returns, and which one.
At(where, r) == [ok |-> r.ok, val |-> r.val, at |-> where]

\* The steps of get_array_attribute after the dispatch table.
after_getters(sg, derivatives, object, type, name, index, val) ==
    IF object = "mouse" /\ name = "s" /\ type = "float" /\ m_mouse_x >= 0
    THEN At("mouse", Got(Store(val, <<Rat(2 * m_mouse_x + 1, 2 * m_xres)>>)))
    ELSE IF object = "mouse" /\ name = "t" /\ type = "float" /\ m_mouse_y >= 0
    THEN At("mouse", Got(Store(val, <<Rat(2 * m_mouse_y + 1, 2 * m_yres)>>)))
    ELSE IF object = "options" /\ name = "blahblah" /\ type = "float"
    THEN At("options", Got(Store(val, <<Rat(314159, 100000)>>)))
    ELSE IF object = "" /\ index = -1
    THEN At("userdata", get_userdata(derivatives, name, type, sg, val))
    ELSE At("end", Declined(val))

\* get_array_attribute in which a getter that declines lets the later steps run.
get_array_attribute_fallthrough(sg, derivatives, object, type, name, index, val) ==
    IF name \in m_attr_getters /\ CallGetter(name, derivatives, type, val).ok
    THEN At("getter", CallGetter(name, derivatives, type, val))
    ELSE after_getters(sg, derivatives, object, type, name, index, val)

\* get_array_attribute(sg, derivatives, object, type, name, index, val)
get_array_attribute(sg, derivatives, object, type, name, index, val) ==
    IF name \in m_attr_getters
    THEN At("getter", CallGetter(name, derivatives, type, val))
    ELSE after_getters(sg, derivatives, object, type, name, index, val)

\* get_attribute(sg, derivatives, object, type, name, val)
get_attribute(sg, derivatives, object, type, name, val) ==
    get_array_attribute(sg, derivatives, object, type, name, -1, val)

\* What the shading engine asks with.
Objects == {"", "mouse", "options", "sphere"}
AttrNames == m_attr_getters \cup {"s", "t", "blahblah", "nosuch"}
ArrayIndexes == {0, 1}
ShadeStates ==
    { [u |-> Rat(1, 4), v |-> Rat(3, 4), dudx |-> Rat(1, 256), dudy |-> Rat(1, 7),
       dvdx |-> Rat(1, 9), dvdy |-> Rat(1, 128)],
      [u |-> Rat(1, 2), v |-> Rat(1, 2), dudx |-> Rat(1, 2), dudy |-> F0,
       dvdx |-> F0, dvdy |-> F1] }

AttrCall(op, sg, derivatives, object, type, name, index, r) ==
    [op |-> op, sg |-> sg, derivatives |-> derivatives, object |-> object,
     type |-> type, name |-> name, index |-> index,
     ok |-> r.ok, val |-> r.val, at |-> r.at]

GetAttribute ==
    /\ Quiet
    /\ \E sg \in ShadeStates, derivatives \in BOOLEAN, object \in Objects,
          type \in TypeDescs, name \in AttrNames :
        /\ ret' = AttrCall("get_attribute", sg, derivatives, object, type, name, -1,
                     get_attribute(sg, derivatives, object, type, name,
                                   Buffer(type, derivatives)))
        /\ UNCHANGED <<camera_vars, catalog_vars, mouse_vars,
                       m_shaderglobals_template, m_framebuffer, thread_vars>>

GetArrayAttribute ==
    /\ Quiet
    /\ \E sg \in ShadeStates, derivatives \in BOOLEAN, object \in Objects,
          type \in TypeDescs, name \in AttrNames, index \in ArrayIndexes :
        /\ ret' = AttrCall("get_array_attribute", sg, derivatives, object, type, name,
                     index,
                     get_array_attribute(sg, derivatives, object, type, name, index,
                                         Buffer(type, derivatives)))
        /\ UNCHANGED <<camera_vars, catalog_vars, mouse_vars,
                       m_shaderglobals_template, m_framebuffer, thread_vars>>

\* The pointer tracker's update of the renderer: any position, or unset.
SetMouse ==
    /\ Quiet
    /\ \E x \in -1 .. MaxMouse, y \in -1 .. MaxMouse :
        /\ m_mouse_x' = x
        /\ m_mouse_y' = y
        /\ ret' = [op |-> "set_mouse"]
        /\ UNCHANGED <<camera_vars, catalog_vars, m_shaderglobals_template,
                       m_framebuffer, thread_vars>>

\* The caller has read what the last call returned.
Discard ==
    /\ ret.op # "none"
    /\ ret' = NoCall
    /\ UNCHANGED <<camera_vars, catalog_vars, mouse_vars,
                   m_shaderglobals_template, m_framebuffer, thread_vars>>

Next ==
    \/ CameraParams
    \/ NameTransform
    \/ GetMatrix
    \/ GetMatrixXform
    \/ GetInverseMatrix
    \/ Discard

Spec == Init /\ [][Next]_vars
NextAttr ==
    \/ CameraParams
    \/ SetMouse
    \/ GetAttribute
    \/ GetArrayAttribute
    \/ RenderImage
    \/ Discard

SpecAttr == Init /\ [][NextAttr]_vars

\* ------------------------------------------------------------------------
\* name_transform on one thread while another is inside get_matrix or
\* get_inverse_matrix: the same code as above, one memory operation per step.
\* The renderer holds no lock around m_named_xforms.

ConcNames == {"myspace", "shader", "nospace"}

\* std::shared_ptr<Transformation> M(new OSL::Matrix44(xform));
WriterNew ==
    /\ writer = Idle
    /\ \E a \in Addrs : heap[a] = Freed
    /\ \E name \in ConcNames \cap RegisterNames, xform \in XformValues :
        /\ heap' = [heap EXCEPT ![NewAddr] = xform]
        /\ writer' = [pc |-> "assign", name |-> name, M |-> NewAddr, xform |-> xform]
        /\ UNCHANGED <<camera_vars, m_named_xforms, registered, mouse_vars,
                       m_shaderglobals_template, m_framebuffer, ret, reader>>

\* m_named_xforms[name] = M, first half: the slot now points at M.
WriterAssign ==
    /\ writer.pc = "assign"
    /\ m_named_xforms' = Put(m_named_xforms, writer.name, writer.M)
    /\ registered' = Put(registered, writer.name, writer.xform)
    /\ writer' = IF writer.name \in DOMAIN m_named_xforms
                 THEN [pc |-> "release", old |-> m_named_xforms[writer.name]]
                 ELSE Idle
    /\ reader' = IF reader.pc # "idle" /\ reader.name = writer.name
                 THEN [reader EXCEPT !.valid = @ \cup {writer.xform}]
                 ELSE reader
    /\ UNCHANGED <<camera_vars, heap, mouse_vars, m_shaderglobals_template,
                   m_framebuffer, ret>>

\* m_named_xforms[name] = M, second half: the matrix the slot pointed at has
\* no owner left and is deleted.
WriterRelease ==
    /\ writer.pc = "release"
    /\ heap' = [heap EXCEPT ![writer.old] = Freed]
    /\ writer' = Idle
    /\ UNCHANGED <<camera_vars, m_named_xforms, registered, mouse_vars,
                   m_shaderglobals_template, m_framebuffer, ret, reader>>

\* found = m_named_xforms.find(name); found == end() returns false.
ReaderFind ==
    /\ reader = Idle
    /\ ret.op = "none"
    /\ \E op \in {"get_matrix", "get_inverse_matrix"}, name \in ConcNames :
        /\ reader' = IF name \in DOMAIN m_named_xforms
                     THEN [pc |-> "found", op |-> op, name |-> name,
                           valid |-> {heap[m_named_xforms[name]]}]
                     ELSE Idle
        /\ ret' = IF name \in DOMAIN m_named_xforms THEN ret
                  ELSE [op |-> op, name |-> name, ok |-> FALSE,
                        val |-> Indeterminate, valid |-> {}]
        /\ UNCHANGED <<camera_vars, catalog_vars, mouse_vars,
                       m_shaderglobals_template, m_framebuffer, writer>>

\* found->second: the pointer the slot holds now.
ReaderDeref ==
    /\ reader.pc = "found"
    /\ reader' = [pc |-> "copy", op |-> reader.op, name |-> reader.name,
                  valid |-> reader.valid, p |-> m_named_xforms[reader.name]]
    /\ UNCHANGED <<camera_vars, catalog_vars, mouse_vars,
                   m_shaderglobals_template, m_framebuffer, ret, writer>>

\* What result = *p copies: the matrix stored at p, or, p having been
\* deleted meanwhile, anything.
Copied(p) == IF heap[p] # Freed THEN {heap[p]} ELSE XformValues \cup {Indeterminate}

\* result = *p [; result.invert()]; return true.
ReaderCopy ==
    /\ reader.pc = "copy"
    /\ \E m \in Copied(reader.p) :
        ret' = [op |-> reader.op, name |-> reader.name, ok |-> TRUE,
                val |-> IF reader.op = "get_matrix" \/ m = Indeterminate
                        THEN m ELSE invert(m),
                valid |-> reader.valid]
    /\ reader' = Idle
    /\ UNCHANGED <<camera_vars, catalog_vars, mouse_vars,
                   m_shaderglobals_template, m_framebuffer, writer>>

NextConc ==
    \/ WriterNew
    \/ WriterAssign
    \/ WriterRelease
    \/ ReaderFind
    \/ ReaderDeref
    \/ ReaderCopy
    \/ Discard

SpecConc == Init /\ [][NextConc]_vars

\* ------------------------------------------------------------------------
\* Properties of transform resolution.

\* The composition chain of the configured camera, truncated after k stages.
ChainStage(k) ==
    IF k = 1 THEN configured.world_to_camera
    ELSE IF k = 2
         THEN IF configured.projection = "perspective"
              THEN camera_to_screen_perspective(configured.hfov, configured.hither,
                                                configured.yon)
              ELSE camera_to_screen_orthographic(configured.hither, configured.yon)
    ELSE IF k = 3 THEN screen_to_ndc
    ELSE ndc_to_raster(configured.xres, configured.yres)

RECURSIVE ChainProduct(_)
ChainProduct(k) ==
    IF k = 1 THEN ChainStage(1) ELSE MatMul(ChainProduct(k - 1), ChainStage(k))

StageCount(space) ==
    IF space = "camera" THEN 1 ELSE IF space = "screen" THEN 2
    ELSE IF space = "NDC" THEN 3 ELSE 4

\* C1: get_matrix of a built-in space name returns true and the composition
\* chain truncated at that space, whether or not the name was registered.
C1_ForwardBuiltinResolves ==
    (ret.op = "get_matrix" /\ ret.name \in BuiltinSpaces)
        => ret.ok /\ ret.val = ChainProduct(StageCount(ret.name))

\* C6: for a name that is no built-in space, get_matrix returns the matrix of
\* the most recent name_transform of that name and get_inverse_matrix returns
\* its inverse; for a name never registered both return false.
C6_NamedTransformLastWins ==
    (ret.op \in {"get_matrix", "get_inverse_matrix"} /\ ret.name \notin BuiltinSpaces)
        => IF ret.name \in DOMAIN registered
           THEN /\ ret.ok
                /\ ret.op = "get_matrix" => ret.val = registered[ret.name]
                /\ ret.op = "get_inverse_matrix" =>
                      /\ MatMul(registered[ret.name], ret.val) = Identity44
                      /\ MatMul(ret.val, registered[ret.name]) = Identity44
           ELSE ~ret.ok

\* A name registered twice, the second time with ScaleShear, then inverted.
C6_Witness ==
    /\ ret.op = "get_inverse_matrix" /\ ret.name = "myspace" /\ ret.ok
    /\ registered["myspace"] = ScaleShear
    /\ m_named_xforms["myspace"] # 1
    /\ ret.val # Identity44

\* C10: get_inverse_matrix of a built-in space name returns true and the
\* product of the first k chain stages of the configured camera (perspective
\* camera_to_screen iff the projection tag is "perspective"), whatever the
\* catalog holds; get_matrix of a built-in name registered with
\* name_transform returns the registered matrix.
C10_InverseBuiltinChain ==
    /\ (ret.op = "get_inverse_matrix" /\ ret.name \in BuiltinSpaces)
          => ret.ok /\ ret.val = ChainProduct(StageCount(ret.name))
    /\ (ret.op = "get_matrix" /\ ret.name \in BuiltinSpaces
           /\ ret.name \in DOMAIN registered)
          => ret.ok /\ ret.val = registered[ret.name]

\* "camera" is registered with another matrix than the camera's, the
\* projection tag is neither perspective nor orthographic.
C10_Witness ==
    /\ ret.op = "get_inverse_matrix" /\ ret.name = "camera" /\ ret.ok
    /\ "camera" \in DOMAIN registered
    /\ registered["camera"] # ret.val
    /\ configured.projection = "spherical"

\* C2: the template's resolution-dependent fields match the configured
\* resolution after any sequence of camera_params calls, so the template
\* render_image passes to shade_image is never stale.
C2_TemplateMatchesResolution ==
    LET Fresh(sg) == /\ sg.dudx = RDiv(F1, Float(m_xres))
                     /\ sg.dvdy = RDiv(F1, Float(m_yres))
                     /\ sg.dPdu = Vec3(Float(m_xres), F0, F0)
                     /\ sg.dPdv = Vec3(F0, Float(m_yres), F0)
    IN  /\ Fresh(m_shaderglobals_template)
        /\ ret.op = "render_image" => Fresh(ret.sg)

\* ------------------------------------------------------------------------
\* Properties of attribute resolution.

IsAttrCall == ret.op \in {"get_attribute", "get_array_attribute"}

\* The one type each dispatch-table attribute is documented to have.
RequiredType(name) ==
    IF name \in {"osl:version"} THEN "int"
    ELSE IF name = "camera:resolution" THEN "int[2]"
    ELSE IF name = "camera:projection" THEN "string"
    ELSE IF name = "camera:screen_window" THEN "float[4]"
    ELSE IF name \in {"camera:clip", "camera:shutter"} THEN "float[2]"
    ELSE "float"

CameraAttrs == m_attr_getters \ {"osl:version"}

\* C3 as claimed: a dispatch-table entry that declines for a type mismatch
\* lets resolution go on to the later steps; the call does not return there.
C3_MismatchFallsThrough ==
    (IsAttrCall /\ ret.name \in m_attr_getters /\ ret.type # RequiredType(ret.name))
        => ret.at # "getter"

\* C3 as amended: a dispatch-table entry that declines for a type mismatch
\* ends the call: it returns failure from the table step, nothing is
\* written, and no later step is consulted.
C3_MismatchReturnsFailure ==
    (IsAttrCall /\ ret.name \in m_attr_getters /\ ret.type # RequiredType(ret.name))
        => /\ ret.at = "getter"
           /\ ~ret.ok
           /\ ret.val = Buffer(ret.type, ret.derivatives)

\* camera:fov asked as an int in the mouse scope, the pointer being tracked.
C3_Witness ==
    /\ IsAttrCall /\ ret.name = "camera:fov" /\ ret.type = "int"
    /\ ret.object = "mouse" /\ m_mouse_x >= 0
    /\ ~ret.ok

\* C4: a successful call for a camera attribute with derivatives requested
\* leaves three blocks, the second and third all zero.
C4_CameraDerivsZero ==
    (ret.op = "get_attribute" /\ ret.name \in CameraAttrs /\ ret.ok /\ ret.derivatives)
        => /\ Len(ret.val) = 3 * TypeSize(ret.type)
           /\ \A k \in TypeSize(ret.type) + 1 .. 3 * TypeSize(ret.type) :
                 ret.val[k] = ZeroSlot(ret.type)

\* C5: mouse/s as a float succeeds exactly when m_mouse_x >= 0 and then
\* returns a value in [0,1]; the same for mouse/t with m_mouse_y.
C5_MouseNormalized ==
    /\ (ret.op = "get_attribute" /\ ret.object = "mouse" /\ ret.name = "s"
           /\ ret.type = "float")
          => /\ ret.ok <=> m_mouse_x >= 0
             /\ ret.ok => RLe(F0, ret.val[1]) /\ RLe(ret.val[1], F1)
    /\ (ret.op = "get_attribute" /\ ret.object = "mouse" /\ ret.name = "t"
           /\ ret.type = "float")
          => /\ ret.ok <=> m_mouse_y >= 0
             /\ ret.ok => RLe(F0, ret.val[1]) /\ RLe(ret.val[1], F1)

\* C8: camera:resolution as int[2] succeeds with the (xres, yres) of the
\* last camera_params, in every scope; as a scalar int it fails.
C8_CameraResolution ==
    (ret.op = "get_attribute" /\ ret.name = "camera:resolution")
        => /\ ret.type = "int[2]" =>
                 /\ ret.ok
                 /\ ret.val[1] = <<configured.xres>>
                 /\ ret.val[2] = <<configured.yres>>
           /\ ret.type = "int" => ~ret.ok

\* After camera_params(.., 2, 1), asked in the scope of some object.
C8_Witness ==
    /\ ret.op = "get_attribute" /\ ret.name = "camera:resolution"
    /\ ret.type = "int[2]" /\ ret.object = "sphere" /\ ret.ok
    /\ ret.val[1] = <<2>> /\ ret.val[2] = <<1>>

C7_ReaderSeesOldOrNew ==
    (ret.op \in {"get_matrix", "get_inverse_matrix"} /\ ret.ok)
        => ret.val \in (IF ret.op = "get_matrix" THEN ret.valid
                        ELSE {invert(m) : m \in ret.valid})
====
